---- MODULE Spec2Model ----
(***************************************************************************)
(* Model of serum-rs: the instruction encoder (src/src/instruction.rs) and *)
(* the market account decoder (src/src/market.rs).                         *)
(*                                                                         *)
(* Every operation of the crate is a function of its arguments, so the     *)
(* state machine is a caller that is idle, makes one call (the action      *)
(* computes the whole call and records its arguments and its outcome) and  *)
(* takes the result.  An outcome is Ok(value), Err(error) or Panic (the    *)
(* call unwinds instead of returning).                                     *)
(*                                                                         *)
(* A u64 is four 16-bit limbs, most significant first, so that all 64 bits *)
(* are kept; a byte is 0..255; a Pubkey of the encoder is an opaque small  *)
(* integer, a Pubkey of the decoder is its 32 bytes.                       *)
(***************************************************************************)
EXTENDS Integers, Sequences, FiniteSets, TLC

VARIABLES pc, op, args, ret, steps

vars == <<pc, op, args, ret, steps>>

(***************************************************************************)
(* Bounds of the explored inputs.                                          *)
(***************************************************************************)
\* Caller-chosen addresses are 1..NumKeys.
NumKeys == 2
\* Interior lengths 0..SmallLen are explored byte by byte.
SmallLen == 17
\* Interior lengths within Slack bytes of each record size are explored.
Slack == 8

(***************************************************************************)
(* u64 and byte helpers.                                                   *)
(***************************************************************************)
Byte == 0..255

U64(a, b, c, d) == <<a, b, c, d>>

\* u64::to_le_bytes, as borsh and transmute_to_bytes lay a u64 out on a
\* little-endian target.
to_le_bytes(v) ==
    << v[4] % 256, v[4] \div 256, v[3] % 256, v[3] \div 256,
       v[2] % 256, v[2] \div 256, v[1] % 256, v[1] \div 256 >>

\* A u64 read from 8 bytes of memory on a little-endian target.
from_le_bytes(b) ==
    << b[8] * 256 + b[7], b[6] * 256 + b[5], b[4] * 256 + b[3], b[2] * 256 + b[1] >>

\* borsh: a bool is one byte, 0 or 1.
BoolByte(b) == IF b THEN 1 ELSE 0

\* borsh: a fieldless enum is its variant index; enum Side { Bid, Ask }.
SideTag(side) == IF side = "Bid" THEN 0 ELSE 1

(***************************************************************************)
(* Outcomes.                                                               *)
(***************************************************************************)
Ok(v) == [kind |-> "Ok", val |-> v]
Err(name, n) == [kind |-> "Err", err |-> name, info |-> n]
Panic(why) == [kind |-> "Panic", why |-> why]

(***************************************************************************)
(* Instruction encoder                                                     *)
(***************************************************************************)
\* spl_token::id() and sysvar::rent::id(): fixed addresses outside the
\* range callers choose from.
SPL_TOKEN_ID == 101
RENT_ID == 102

AccountMetaNew(pubkey, is_signer) ==
    [pubkey |-> pubkey, is_signer |-> is_signer, is_writable |-> TRUE]

AccountMetaNewReadonly(pubkey, is_signer) ==
    [pubkey |-> pubkey, is_signer |-> is_signer, is_writable |-> FALSE]

\* anchor discriminators: the first 8 bytes of sha256("global:<name>").
InitAccountDiscriminator == <<169, 188, 158, 199, 9, 151, 101, 125>>
SwapDiscriminator == <<248, 198, 158, 145, 225, 117, 135, 200>>
SwapTransitiveDiscriminator == <<129, 109, 254, 207, 31, 192, 47, 51>>

\* borsh of struct ExchangeRate { rate: u64, from_decimals: u8,
\* quote_decimals: u8, strict: bool }.
ExchangeRateBytes(er) ==
    to_le_bytes(er.rate) \o <<er.from_decimals, er.quote_decimals, BoolByte(er.strict)>>

\* instruction::InitAccount.data()
InitAccountData == InitAccountDiscriminator

\* SwapData with the side written after the amount.
SwapData_SideAfterAmount(ix) ==
    SwapDiscriminator \o to_le_bytes(ix.amount) \o <<SideTag(ix.side)>>
        \o ExchangeRateBytes(ix.min_exchange_rate)

\* instruction::Swap { side, amount, min_exchange_rate }.data()
SwapData(ix) ==
    SwapDiscriminator \o <<SideTag(ix.side)>> \o to_le_bytes(ix.amount)
        \o ExchangeRateBytes(ix.min_exchange_rate)

\* instruction::SwapTransitive { amount, min_exchange_rate }.data()
SwapTransitiveData(ix) ==
    SwapTransitiveDiscriminator \o to_le_bytes(ix.amount)
        \o ExchangeRateBytes(ix.min_exchange_rate)

\* init_account with the authority not marked as signer.
init_account_AuthorityNotSigner(swap_program_id, dex_program_id, authority, market, open_orders) ==
    LET accounts == <<
            AccountMetaNew(open_orders, FALSE),
            AccountMetaNewReadonly(authority, FALSE),
            AccountMetaNewReadonly(market, FALSE),
            AccountMetaNewReadonly(dex_program_id, FALSE),
            AccountMetaNewReadonly(RENT_ID, FALSE) >>
    IN  [program_id |-> swap_program_id, accounts |-> accounts, data |-> InitAccountData]

init_account(swap_program_id, dex_program_id, authority, market, open_orders) ==
    LET accounts == <<
            AccountMetaNew(open_orders, FALSE),
            AccountMetaNewReadonly(authority, TRUE),
            AccountMetaNewReadonly(market, FALSE),
            AccountMetaNewReadonly(dex_program_id, FALSE),
            AccountMetaNewReadonly(RENT_ID, FALSE) >>
    IN  [program_id |-> swap_program_id, accounts |-> accounts, data |-> InitAccountData]

\* swap with pc_vault listed before coin_vault.
swap_PcVaultFirst(swap_program_id, dex_program_id, authority, pc_wallet, market, amount, side, rate, from_decimals) ==
    LET accounts == <<
            AccountMetaNew(market.market, FALSE),
            AccountMetaNew(market.open_orders, FALSE),
            AccountMetaNew(market.request_queue, FALSE),
            AccountMetaNew(market.event_queue, FALSE),
            AccountMetaNew(market.bids, FALSE),
            AccountMetaNew(market.asks, FALSE),
            AccountMetaNew(market.order_payer_token_account, FALSE),
            AccountMetaNew(market.pc_vault, FALSE),
            AccountMetaNew(market.coin_vault, FALSE),
            AccountMetaNewReadonly(market.vault_signer, FALSE),
            AccountMetaNew(market.coin_wallet, FALSE),
            AccountMetaNewReadonly(authority, TRUE),
            AccountMetaNew(pc_wallet, FALSE),
            AccountMetaNewReadonly(dex_program_id, FALSE),
            AccountMetaNewReadonly(SPL_TOKEN_ID, FALSE),
            AccountMetaNewReadonly(SPL_TOKEN_ID, FALSE) >>
    IN  [program_id |-> swap_program_id,
         accounts |-> accounts,
         data |-> SwapData([side |-> side,
                            amount |-> amount,
                            min_exchange_rate |->
                                [rate |-> rate,
                                 from_decimals |-> from_decimals,
                                 quote_decimals |-> 0,
                                 strict |-> FALSE]])]

swap(swap_program_id, dex_program_id, authority, pc_wallet, market, amount, side, rate, from_decimals) ==
    LET accounts == <<
            AccountMetaNew(market.market, FALSE),
            AccountMetaNew(market.open_orders, FALSE),
            AccountMetaNew(market.request_queue, FALSE),
            AccountMetaNew(market.event_queue, FALSE),
            AccountMetaNew(market.bids, FALSE),
            AccountMetaNew(market.asks, FALSE),
            AccountMetaNew(market.order_payer_token_account, FALSE),
            AccountMetaNew(market.coin_vault, FALSE),
            AccountMetaNew(market.pc_vault, FALSE),
            AccountMetaNewReadonly(market.vault_signer, FALSE),
            AccountMetaNew(market.coin_wallet, FALSE),
            AccountMetaNewReadonly(authority, TRUE),
            AccountMetaNew(pc_wallet, FALSE),
            AccountMetaNewReadonly(dex_program_id, FALSE),
            AccountMetaNewReadonly(SPL_TOKEN_ID, FALSE),
            AccountMetaNewReadonly(SPL_TOKEN_ID, FALSE) >>
    IN  [program_id |-> swap_program_id,
         accounts |-> accounts,
         data |-> SwapData([side |-> side,
                            amount |-> amount,
                            min_exchange_rate |->
                                [rate |-> rate,
                                 from_decimals |-> from_decimals,
                                 quote_decimals |-> 0,
                                 strict |-> FALSE]])]

\* swap_transitive whose second block ends with the coin wallet of `from`.
swap_transitive_ToWalletOfFrom(swap_program_id, dex_program_id, authority, pc_wallet, from, to, amount, rate, from_decimals, quote_decimals, strict) ==
    LET accounts == <<
            AccountMetaNew(from.market, FALSE),
            AccountMetaNew(from.open_orders, FALSE),
            AccountMetaNew(from.request_queue, FALSE),
            AccountMetaNew(from.event_queue, FALSE),
            AccountMetaNew(from.bids, FALSE),
            AccountMetaNew(from.asks, FALSE),
            AccountMetaNew(from.order_payer_token_account, FALSE),
            AccountMetaNew(from.coin_vault, FALSE),
            AccountMetaNew(from.pc_vault, FALSE),
            AccountMetaNewReadonly(from.vault_signer, FALSE),
            AccountMetaNew(from.coin_wallet, FALSE),
            AccountMetaNew(to.market, FALSE),
            AccountMetaNew(to.open_orders, FALSE),
            AccountMetaNew(to.request_queue, FALSE),
            AccountMetaNew(to.event_queue, FALSE),
            AccountMetaNew(to.bids, FALSE),
            AccountMetaNew(to.asks, FALSE),
            AccountMetaNew(to.order_payer_token_account, FALSE),
            AccountMetaNew(to.coin_vault, FALSE),
            AccountMetaNew(to.pc_vault, FALSE),
            AccountMetaNewReadonly(to.vault_signer, FALSE),
            AccountMetaNew(from.coin_wallet, FALSE),
            AccountMetaNewReadonly(authority, TRUE),
            AccountMetaNew(pc_wallet, FALSE),
            AccountMetaNewReadonly(dex_program_id, FALSE),
            AccountMetaNewReadonly(SPL_TOKEN_ID, FALSE),
            AccountMetaNewReadonly(SPL_TOKEN_ID, FALSE) >>
    IN  [program_id |-> swap_program_id,
         accounts |-> accounts,
         data |-> SwapTransitiveData([amount |-> amount,
                                      min_exchange_rate |->
                                          [rate |-> rate,
                                           from_decimals |-> from_decimals,
                                           quote_decimals |-> quote_decimals,
                                           strict |-> strict]])]

swap_transitive(swap_program_id, dex_program_id, authority, pc_wallet, from, to, amount, rate, from_decimals, quote_decimals, strict) ==
    LET accounts == <<
            AccountMetaNew(from.market, FALSE),
            AccountMetaNew(from.open_orders, FALSE),
            AccountMetaNew(from.request_queue, FALSE),
            AccountMetaNew(from.event_queue, FALSE),
            AccountMetaNew(from.bids, FALSE),
            AccountMetaNew(from.asks, FALSE),
            AccountMetaNew(from.order_payer_token_account, FALSE),
            AccountMetaNew(from.coin_vault, FALSE),
            AccountMetaNew(from.pc_vault, FALSE),
            AccountMetaNewReadonly(from.vault_signer, FALSE),
            AccountMetaNew(from.coin_wallet, FALSE),
            AccountMetaNew(to.market, FALSE),
            AccountMetaNew(to.open_orders, FALSE),
            AccountMetaNew(to.request_queue, FALSE),
            AccountMetaNew(to.event_queue, FALSE),
            AccountMetaNew(to.bids, FALSE),
            AccountMetaNew(to.asks, FALSE),
            AccountMetaNew(to.order_payer_token_account, FALSE),
            AccountMetaNew(to.coin_vault, FALSE),
            AccountMetaNew(to.pc_vault, FALSE),
            AccountMetaNewReadonly(to.vault_signer, FALSE),
            AccountMetaNew(to.coin_wallet, FALSE),
            AccountMetaNewReadonly(authority, TRUE),
            AccountMetaNew(pc_wallet, FALSE),
            AccountMetaNewReadonly(dex_program_id, FALSE),
            AccountMetaNewReadonly(SPL_TOKEN_ID, FALSE),
            AccountMetaNewReadonly(SPL_TOKEN_ID, FALSE) >>
    IN  [program_id |-> swap_program_id,
         accounts |-> accounts,
         data |-> SwapTransitiveData([amount |-> amount,
                                      min_exchange_rate |->
                                          [rate |-> rate,
                                           from_decimals |-> from_decimals,
                                           quote_decimals |-> quote_decimals,
                                           strict |-> strict]])]

(***************************************************************************)
(* Encoder inputs.                                                         *)
(***************************************************************************)
Keys == 1..NumKeys

\* A MarketAccounts whose eleven addresses are b+1 .. b+11.
DistinctMarket(b) ==
    [market |-> b + 1, open_orders |-> b + 2, request_queue |-> b + 3,
     event_queue |-> b + 4, bids |-> b + 5, asks |-> b + 6,
     order_payer_token_account |-> b + 7, coin_vault |-> b + 8,
     pc_vault |-> b + 9, vault_signer |-> b + 10, coin_wallet |-> b + 11]

\* A MarketAccounts whose eleven addresses are all k (the crate's test).
UniformMarket(k) ==
    [market |-> k, open_orders |-> k, request_queue |-> k,
     event_queue |-> k, bids |-> k, asks |-> k,
     order_payer_token_account |-> k, coin_vault |-> k,
     pc_vault |-> k, vault_signer |-> k, coin_wallet |-> k]

MarketAccountsSet ==
    {DistinctMarket(10 * k) : k \in Keys} \cup {UniformMarket(k) : k \in Keys}

U64Samples ==
    { U64(0, 0, 0, 0), U64(0, 0, 0, 1), U64(0, 0, 0, 2),
      U64(258, 772, 1286, 1800), U64(65535, 65535, 65535, 65535) }

U8Samples == {0, 3, 255}

Sides == {"Bid", "Ask"}

(***************************************************************************)
(* Actions of the encoder.                                                 *)
(***************************************************************************)
InitAccount ==
    /\ pc = "idle"
    /\ \E s \in Keys, d \in Keys, a \in Keys, m \in Keys, o \in Keys :
        /\ op' = "init_account"
        /\ args' = [swap_program_id |-> s, dex_program_id |-> d, authority |-> a,
                    market |-> m, open_orders |-> o]
        /\ ret' = Ok(init_account(s, d, a, m, o))
    /\ steps' = <<>>
    /\ pc' = "done"

Swap ==
    /\ pc = "idle"
    /\ \E s \in Keys, d \in Keys, a \in Keys, w \in Keys, m \in MarketAccountsSet,
          amount \in U64Samples, side \in Sides, rate \in U64Samples,
          from_decimals \in U8Samples :
        /\ op' = "swap"
        /\ args' = [swap_program_id |-> s, dex_program_id |-> d, authority |-> a,
                    pc_wallet |-> w, market |-> m, amount |-> amount, side |-> side,
                    rate |-> rate, from_decimals |-> from_decimals]
        /\ ret' = Ok(swap(s, d, a, w, m, amount, side, rate, from_decimals))
    /\ steps' = <<>>
    /\ pc' = "done"

\* The two program addresses are fixed here; the rest varies as for swap.
SwapTransitive ==
    /\ pc = "idle"
    /\ \E a \in Keys, w \in Keys, from \in MarketAccountsSet, to \in MarketAccountsSet,
          amount \in U64Samples, rate \in {U64(0, 0, 0, 2), U64(258, 772, 1286, 1800)},
          from_decimals \in U8Samples, quote_decimals \in U8Samples,
          strict \in BOOLEAN :
        /\ op' = "swap_transitive"
        /\ args' = [swap_program_id |-> 1, dex_program_id |-> NumKeys, authority |-> a,
                    pc_wallet |-> w, from |-> from, to |-> to, amount |-> amount,
                    rate |-> rate, from_decimals |-> from_decimals,
                    quote_decimals |-> quote_decimals, strict |-> strict]
        /\ ret' = Ok(swap_transitive(1, NumKeys, a, w, from, to, amount, rate,
                                     from_decimals, quote_decimals, strict))
    /\ steps' = <<>>
    /\ pc' = "done"

(***************************************************************************)
(* Account decoder                                                         *)
(***************************************************************************)
\* serum_dex::state::ACCOUNT_HEAD_PADDING = b"serum" and
\* ACCOUNT_TAIL_PADDING = b"padding".
ACCOUNT_HEAD_PADDING == <<115, 101, 114, 117, 109>>
ACCOUNT_TAIL_PADDING == <<112, 97, 100, 100, 105, 110, 103>>

HeadLen == Len(ACCOUNT_HEAD_PADDING)
TailLen == Len(ACCOUNT_TAIL_PADDING)

\* size_of::<MarketState>() and size_of::<MarketStateV2>() in bytes.
MarketStateSize == 376
MarketStateV2Size == 1464

\* The bytes of a byte sequence as u64 words, the trailing len % 8 bytes
\* left out (a pointer cast of len / 8 elements).
BytesToWords(bytes) ==
    [i \in 1..(Len(bytes) \div 8) |-> from_le_bytes(SubSeq(bytes, 8 * i - 7, 8 * i))]

\* safe_transmute::transmute_to_bytes(&[u64]): the words' memory.
transmute_to_bytes(words) ==
    [i \in 1..(8 * Len(words)) |-> to_le_bytes(words[((i - 1) \div 8) + 1])[((i - 1) % 8) + 1]]

\* safe_transmute::transmute_many_pedantic::<u64>: the alignment of the
\* slice is checked first, then PedanticGuard (at least one element, no
\* extraneous byte).  `aligned` is whether the slice's address is a
\* multiple of 8, which the allocation decides.
transmute_many_pedantic(bytes, aligned) ==
    IF ~aligned THEN [kind |-> "Unaligned", source |-> bytes]
    ELSE IF Len(bytes) < 8 \/ Len(bytes) % 8 # 0
         THEN [kind |-> "Guard", actual |-> Len(bytes)]
         ELSE [kind |-> "Ok", val |-> BytesToWords(bytes)]

\* safe_transmute::Error::copy: an Unaligned error copies len / 8 elements
\* of its source into a new Vec; every other error is handed back.
ErrorCopy(e) ==
    IF e.kind = "Unaligned" THEN [kind |-> "Ok", val |-> BytesToWords(e.source)]
    ELSE e

\* remove_dex_account_padding with the tail compared before the head.
remove_dex_account_padding_TailFirst(data, aligned) ==
    IF Len(data) < HeadLen
    THEN Panic("range end index out of range for slice")
    ELSE IF Len(data) < HeadLen + TailLen
    THEN Err("AccountLengthTooSmall", Len(data))
    ELSE IF SubSeq(data, Len(data) - TailLen + 1, Len(data)) # ACCOUNT_TAIL_PADDING
    THEN Err("TailPaddingMismatch", 0)
    ELSE IF SubSeq(data, 1, HeadLen) # ACCOUNT_HEAD_PADDING
    THEN Err("HeadPaddingMismatch", 0)
    ELSE LET inner == SubSeq(data, HeadLen + 1, Len(data) - TailLen)
             t == transmute_many_pedantic(inner, aligned)
         IN  IF t.kind = "Ok"
             THEN Ok([words |-> t.val, cow |-> "Borrowed"])
             ELSE LET c == ErrorCopy(t)
                  IN  IF c.kind = "Ok"
                      THEN Ok([words |-> c.val, cow |-> "Owned"])
                      ELSE Err("TransmuteGuard", c.actual)

remove_dex_account_padding(data, aligned) ==
    IF Len(data) < HeadLen
    THEN Panic("range end index out of range for slice")
    ELSE IF Len(data) < HeadLen + TailLen
    THEN Err("AccountLengthTooSmall", Len(data))
    ELSE IF SubSeq(data, 1, HeadLen) # ACCOUNT_HEAD_PADDING
    THEN Err("HeadPaddingMismatch", 0)
    ELSE IF SubSeq(data, Len(data) - TailLen + 1, Len(data)) # ACCOUNT_TAIL_PADDING
    THEN Err("TailPaddingMismatch", 0)
    ELSE LET inner == SubSeq(data, HeadLen + 1, Len(data) - TailLen)
             t == transmute_many_pedantic(inner, aligned)
         IN  IF t.kind = "Ok"
             THEN Ok([words |-> t.val, cow |-> "Borrowed"])
             ELSE LET c == ErrorCopy(t)
                  IN  IF c.kind = "Ok"
                      THEN Ok([words |-> c.val, cow |-> "Owned"])
                      ELSE Err("TransmuteGuard", c.actual)

\* BitFlags::<AccountFlag>::from_bits: every set bit must be a flag.  The
\* flags are bits 0..10 (Initialized = 1, Market = 2, ..., Permissioned =
\* 512, CrankAuthorityRequired = 1024).
ValidFlags(w) == w[1] = 0 /\ w[2] = 0 /\ w[3] = 0 /\ w[4] < 2048

\* account_flags.intersects(AccountFlag::Permissioned)
Permissioned(w) == (w[4] \div 512) % 2 = 1

\* serum_dex::state::Market::account_flags: the u64 behind the head
\* padding of the whole account, read from account_data itself.
account_flags(account_data) ==
    IF Len(account_data) < HeadLen + 8
    THEN Err("DexError", Len(account_data))
    ELSE LET w == from_le_bytes(SubSeq(account_data, HeadLen + 1, HeadLen + 8))
         IN  IF ValidFlags(w) THEN Ok(w) ELSE Err("DexError", 0)

\* safe_transmute::transmute_one_pedantic::<T>: exactly size_of::<T>()
\* bytes, read unaligned.
transmute_one_pedantic(bytes, size) ==
    IF Len(bytes) = size
    THEN Ok(BytesToWords(bytes))
    ELSE Err("TransmuteGuard", Len(bytes))

\* Market::deserialize
deserialize(account_data, aligned) ==
    LET words == remove_dex_account_padding(account_data, aligned)
    IN  IF words.kind # "Ok" THEN words
        ELSE LET flags == account_flags(account_data)
             IN  IF flags.kind # "Ok" THEN flags
                 ELSE IF Permissioned(flags.val)
                 THEN LET state == transmute_one_pedantic(
                                       transmute_to_bytes(words.val.words), MarketStateV2Size)
                      IN  IF state.kind # "Ok" THEN state
                          ELSE Ok([variant |-> "V2", words |-> state.val])
                 ELSE LET state == transmute_one_pedantic(
                                       transmute_to_bytes(words.val.words), MarketStateSize)
                      IN  IF state.kind # "Ok" THEN state
                          ELSE Ok([variant |-> "V1", words |-> state.val])

\* Deref for Market: V2's leading `inner` field is the MarketState.
MarketStateOf(m) ==
    IF m.variant = "V1" THEN m.words ELSE SubSeq(m.words, 1, MarketStateSize \div 8)

\* The [u64; 4] field of a MarketState that starts at word `first` (from 0),
\* as the 32 bytes of a Pubkey.
FieldPubkey(state, first) == transmute_to_bytes(SubSeq(state, first + 1, first + 4))

\* MarketState::check_flags: Initialized | Market, with or without
\* Permissioned (and CrankAuthorityRequired on top of that).
check_flags(state) ==
    /\ state[1][1] = 0 /\ state[1][2] = 0 /\ state[1][3] = 0
    /\ state[1][4] \in {3, 515, 1539}

\* Market::pubkeys; `vault_signer` is what gen_vault_signer_key returns
\* for (vault_signer_nonce, market, dex_program_id).
pubkeys(m, vault_signer) ==
    LET state == MarketStateOf(m)
        market == FieldPubkey(state, 1)
    IN  IF vault_signer.kind # "Ok" THEN Err("ProgramError", 0)
        ELSE Ok([market |-> market,
                 request_queue |-> FieldPubkey(state, 27),
                 event_queue |-> FieldPubkey(state, 31),
                 bids |-> FieldPubkey(state, 35),
                 asks |-> FieldPubkey(state, 39),
                 coin_mint |-> FieldPubkey(state, 6),
                 coin_vault |-> FieldPubkey(state, 14),
                 pc_mint |-> FieldPubkey(state, 10),
                 pc_vault |-> FieldPubkey(state, 20),
                 vault_signer |-> vault_signer.val])

\* get_market_keys without the comparison of the own address.
get_market_keys_NoAssert(client, aligned, market, vault_signer) ==
    IF client.kind # "Ok"
    THEN [steps |-> <<"fetch">>, ret |-> Err("ClientError", 0)]
    ELSE LET market_state == deserialize(client.val, aligned)
         IN  IF market_state.kind # "Ok"
             THEN [steps |-> <<"fetch", "deserialize">>, ret |-> market_state]
             ELSE IF ~check_flags(MarketStateOf(market_state.val))
             THEN [steps |-> <<"fetch", "deserialize", "check_flags">>,
                   ret |-> Err("DexError", 0)]
             ELSE [steps |-> <<"fetch", "deserialize", "check_flags", "assert_eq", "pubkeys">>,
                   ret |-> pubkeys(market_state.val, vault_signer)]

\* get_market_keys; `client` is what client.get_account_data(&market)
\* returns.  The result is the outcome and the steps that ran.
get_market_keys(client, aligned, market, vault_signer) ==
    IF client.kind # "Ok"
    THEN [steps |-> <<"fetch">>, ret |-> Err("ClientError", 0)]
    ELSE LET market_state == deserialize(client.val, aligned)
         IN  IF market_state.kind # "Ok"
             THEN [steps |-> <<"fetch", "deserialize">>, ret |-> market_state]
             ELSE IF ~check_flags(MarketStateOf(market_state.val))
             THEN [steps |-> <<"fetch", "deserialize", "check_flags">>,
                   ret |-> Err("DexError", 0)]
             ELSE IF FieldPubkey(MarketStateOf(market_state.val), 1) # market
             THEN [steps |-> <<"fetch", "deserialize", "check_flags", "assert_eq">>,
                   ret |-> Panic("assertion failed: left == right")]
             ELSE [steps |-> <<"fetch", "deserialize", "check_flags", "assert_eq", "pubkeys">>,
                   ret |-> pubkeys(market_state.val, vault_signer)]

(***************************************************************************)
(* Decoder inputs.                                                         *)
(***************************************************************************)
\* The 32 bytes of address k.
Addr(k) == [i \in 1..32 |-> (16 * k + i) % 256]

FlagSamples ==
    { U64(0, 0, 0, 3), U64(0, 0, 0, 515), U64(0, 0, 0, 512),
      U64(0, 0, 0, 0), U64(0, 1, 0, 3) }

\* An interior of n bytes: the flags word, the own address, then filler
\* that differs from byte to byte.
MkInterior(n, flags, own) ==
    [i \in 1..n |-> IF i <= 8 THEN to_le_bytes(flags)[i]
                    ELSE IF i <= 40 THEN own[i - 8]
                    ELSE (7 * i) % 256]

\* s with byte i changed.
Corrupt(s, i) == [s EXCEPT ![i] = (s[i] + 1) % 256]

Heads ==
    { ACCOUNT_HEAD_PADDING, Corrupt(ACCOUNT_HEAD_PADDING, 1),
      Corrupt(ACCOUNT_HEAD_PADDING, HeadLen) }

Tails ==
    { ACCOUNT_TAIL_PADDING, Corrupt(ACCOUNT_TAIL_PADDING, 1),
      Corrupt(ACCOUNT_TAIL_PADDING, TailLen) }

Prefix(s, n) == SubSeq(s, 1, n)

\* Buffers too short for the two paddings.
ShortBuffers ==
    { Prefix(h \o ACCOUNT_TAIL_PADDING, n) : h \in Heads, n \in 0..(HeadLen + TailLen - 1) }

\* Every head and tail around a short interior.
EnvelopeBuffers ==
    { h \o MkInterior(n, f, Addr(1)) \o t :
        h \in Heads, t \in Tails, n \in 0..SmallLen,
        f \in {U64(0, 0, 0, 3), U64(0, 0, 0, 515)} }

RecordLens ==
    { MarketStateSize + d : d \in (0 - Slack)..Slack }
        \cup { MarketStateV2Size + d : d \in (0 - Slack)..Slack }

\* Well-padded buffers whose interior is as long as a record, or nearly.
RecordBuffers ==
    { ACCOUNT_HEAD_PADDING \o MkInterior(n, f, Addr(k)) \o ACCOUNT_TAIL_PADDING :
        n \in RecordLens, f \in FlagSamples, k \in Keys }

\* Record-sized buffers with a bad head or tail.
BadRecordBuffers ==
    { h \o MkInterior(MarketStateSize, U64(0, 0, 0, 3), Addr(1)) \o t :
        h \in Heads, t \in Tails }

Buffers == ShortBuffers \cup EnvelopeBuffers \cup RecordBuffers \cup BadRecordBuffers

\* What gen_vault_signer_key may return.
VaultSignerResults == { Ok(Addr(7)), Err("ProgramError", 0) }

\* What the ledger client may return.
ClientResults == { Err("ClientError", 0) } \cup { Ok(b) : b \in Buffers }

(***************************************************************************)
(* Actions of the decoder.                                                 *)
(***************************************************************************)
RemovePadding ==
    /\ pc = "idle"
    /\ \E data \in Buffers, aligned \in BOOLEAN :
        /\ op' = "remove_dex_account_padding"
        /\ args' = [data |-> data, aligned |-> aligned]
        /\ ret' = remove_dex_account_padding(data, aligned)
    /\ steps' = <<>>
    /\ pc' = "done"

Deserialize ==
    /\ pc = "idle"
    /\ \E data \in Buffers, aligned \in BOOLEAN :
        /\ op' = "deserialize"
        /\ args' = [data |-> data, aligned |-> aligned]
        /\ ret' = deserialize(data, aligned)
    /\ steps' = <<>>
    /\ pc' = "done"

GetMarketKeys ==
    /\ pc = "idle"
    /\ \E client \in ClientResults, aligned \in BOOLEAN, k \in Keys,
          vault_signer \in VaultSignerResults :
        LET r == get_market_keys(client, aligned, Addr(k), vault_signer)
        IN  /\ op' = "get_market_keys"
            /\ args' = [client |-> client, aligned |-> aligned, market |-> Addr(k),
                        vault_signer |-> vault_signer]
            /\ ret' = r.ret
            /\ steps' = r.steps
    /\ pc' = "done"

\* The caller takes the result; the crate keeps no state between calls.
Return ==
    /\ pc = "done"
    /\ pc' = "idle"
    /\ op' = "none"
    /\ args' = <<>>
    /\ ret' = <<>>
    /\ steps' = <<>>

Init ==
    /\ pc = "idle"
    /\ op = "none"
    /\ args = <<>>
    /\ ret = <<>>
    /\ steps = <<>>

Next ==
    \/ InitAccount
    \/ Swap
    \/ SwapTransitive
    \/ RemovePadding
    \/ Deserialize
    \/ GetMarketKeys
    \/ Return

Spec == Init /\ [][Next]_vars

(***************************************************************************)
(* Properties                                                              *)
(***************************************************************************)
Done(o) == pc = "done" /\ op = o

Pubkeys(accounts) == [i \in 1..Len(accounts) |-> accounts[i].pubkey]

\* The eleven addresses of a MarketAccounts in the order of the protocol.
MarketBlock(m) ==
    << m.market, m.open_orders, m.request_queue, m.event_queue, m.bids, m.asks,
       m.order_payer_token_account, m.coin_vault, m.pc_vault, m.vault_signer,
       m.coin_wallet >>

\* Account i is writable unless i is in `readonly`, and signs iff i = signer.
FlagsAre(accounts, readonly, signer) ==
    \A i \in 1..Len(accounts) :
        /\ accounts[i].is_writable = (i \notin readonly)
        /\ accounts[i].is_signer = (i = signer)

\* C1: swap returns an instruction for the swap program whose 16 accounts
\* are the market block, authority, pc_wallet, the dex program id and the
\* token program id twice; only vault_signer, authority, the dex program id
\* and the token program id are read-only, and only authority signs.
C1_SwapAccounts ==
    Done("swap") =>
        /\ ret.kind = "Ok"
        /\ ret.val.program_id = args.swap_program_id
        /\ Len(ret.val.accounts) = 16
        /\ Pubkeys(ret.val.accounts) =
               MarketBlock(args.market)
                   \o <<args.authority, args.pc_wallet, args.dex_program_id,
                        SPL_TOKEN_ID, SPL_TOKEN_ID>>
        /\ FlagsAre(ret.val.accounts, {10, 12, 14, 15, 16}, 12)

C1_Witness ==
    /\ Done("swap")
    /\ args.market = DistinctMarket(10)
    /\ args.authority # args.pc_wallet
    /\ args.pc_wallet # args.dex_program_id
    /\ Len(ret.val.accounts) = 16

\* C2: swap's payload is the Swap discriminant, the side tag (Bid 0, Ask 1),
\* amount and rate as 8 little-endian bytes each, from_decimals, then
\* quote_decimals = 0 and strict = 0: 28 bytes that depend on no address.
C2_SwapPayload ==
    Done("swap") =>
        LET d == ret.val.data
            amount == args.amount
            rate == args.rate
        IN  /\ Len(d) = 28
            /\ SubSeq(d, 1, 8) = <<248, 198, 158, 145, 225, 117, 135, 200>>
            /\ d[9] = (IF args.side = "Ask" THEN 1 ELSE 0)
            /\ \A i \in 0..3 :
                /\ d[10 + 2 * i] + 256 * d[11 + 2 * i] = amount[4 - i]
                /\ d[18 + 2 * i] + 256 * d[19 + 2 * i] = rate[4 - i]
            /\ d[26] = args.from_decimals
            /\ d[27] = 0
            /\ d[28] = 0
            /\ \A i \in 1..28 : d[i] \in Byte

\* The crate's own test: amount 1, Ask, rate 2, from_decimals 3.
C2_Witness ==
    /\ Done("swap")
    /\ args.amount = U64(0, 0, 0, 1) /\ args.side = "Ask"
    /\ args.rate = U64(0, 0, 0, 2) /\ args.from_decimals = 3
    /\ ret.val.data =
           <<248, 198, 158, 145, 225, 117, 135, 200, 1, 1, 0, 0, 0, 0, 0, 0, 0,
             2, 0, 0, 0, 0, 0, 0, 0, 3, 0, 0>>

\* C3: swap_transitive's 27 accounts are the market block of `from`, the
\* market block of `to`, then authority, pc_wallet, the dex program id and
\* the token program id twice, with swap's flags in each block; its payload
\* is the SwapTransitive discriminant, amount, and rate, from_decimals,
\* quote_decimals and strict as the caller gave them.
C3_SwapTransitive ==
    Done("swap_transitive") =>
        LET d == ret.val.data
            amount == args.amount
            rate == args.rate
        IN  /\ ret.val.program_id = args.swap_program_id
            /\ Len(ret.val.accounts) = 2 * 11 + 5
            /\ Pubkeys(ret.val.accounts) =
                   MarketBlock(args.from) \o MarketBlock(args.to)
                       \o <<args.authority, args.pc_wallet, args.dex_program_id,
                            SPL_TOKEN_ID, SPL_TOKEN_ID>>
            /\ FlagsAre(ret.val.accounts, {10, 21, 23, 25, 26, 27}, 23)
            /\ Len(d) = 27
            /\ SubSeq(d, 1, 8) = <<129, 109, 254, 207, 31, 192, 47, 51>>
            /\ \A i \in 0..3 :
                /\ d[9 + 2 * i] + 256 * d[10 + 2 * i] = amount[4 - i]
                /\ d[17 + 2 * i] + 256 * d[18 + 2 * i] = rate[4 - i]
            /\ d[25] = args.from_decimals
            /\ d[26] = args.quote_decimals
            /\ d[27] = (IF args.strict THEN 1 ELSE 0)

C3_Witness ==
    /\ Done("swap_transitive")
    /\ args.from = DistinctMarket(10) /\ args.to = DistinctMarket(20)
    /\ args.quote_decimals = 255 /\ args.strict
    /\ args.from_decimals = 3
    /\ Len(ret.val.accounts) = 27

\* C9: init_account emits open_orders (writable), authority (read-only,
\* signer), market, the dex program id and the rent sysvar (read-only), and
\* its payload is the 8-byte InitAccount discriminant, whatever the
\* arguments.
C9_InitAccount ==
    Done("init_account") =>
        /\ ret.val.program_id = args.swap_program_id
        /\ Len(ret.val.accounts) = 5
        /\ Pubkeys(ret.val.accounts) =
               <<args.open_orders, args.authority, args.market,
                 args.dex_program_id, RENT_ID>>
        /\ FlagsAre(ret.val.accounts, {2, 3, 4, 5}, 2)
        /\ ret.val.data = <<169, 188, 158, 199, 9, 151, 101, 125>>

C9_Witness ==
    /\ Done("init_account")
    /\ args.open_orders # args.authority
    /\ args.authority # args.market
    /\ args.market # args.dex_program_id
    /\ Len(ret.val.accounts) = 5

\* The decoder calls, and the buffer a call decodes.
DecodeCall ==
    /\ pc = "done"
    /\ \/ op \in {"remove_dex_account_padding", "deserialize"}
       \/ op = "get_market_keys" /\ args.client.kind = "Ok"

Data == IF op = "get_market_keys" THEN args.client.val ELSE args.data

HeadOf(data) == SubSeq(data, 1, HeadLen)
TailOf(data) == SubSeq(data, Len(data) - TailLen + 1, Len(data))
InnerOf(data) == SubSeq(data, HeadLen + 1, Len(data) - TailLen)

\* C5: a buffer shorter than the two paddings fails with
\* AccountLengthTooSmall.
C5_TooSmall ==
    (DecodeCall /\ Len(Data) < HeadLen + TailLen) =>
        ret = Err("AccountLengthTooSmall", Len(Data))

\* C6 as stated: a buffer whose head differs from the head padding fails
\* with HeadPaddingMismatch and nothing else.
C6_HeadMismatchAlways ==
    (DecodeCall /\ Len(Data) >= HeadLen /\ HeadOf(Data) # ACCOUNT_HEAD_PADDING) =>
        ret = Err("HeadPaddingMismatch", 0)

\* C6 amended: a buffer at least as long as the two paddings whose head
\* differs from the head padding fails with HeadPaddingMismatch and nothing
\* else, whatever its tail, interior and flags.
C6_HeadMismatch ==
    (/\ DecodeCall
     /\ Len(Data) >= HeadLen + TailLen
     /\ HeadOf(Data) # ACCOUNT_HEAD_PADDING) =>
        ret = Err("HeadPaddingMismatch", 0)

C6_Witness ==
    /\ Done("deserialize")
    /\ Len(args.data) = HeadLen + MarketStateSize + TailLen
    /\ HeadOf(args.data) # ACCOUNT_HEAD_PADDING
    /\ TailOf(args.data) # ACCOUNT_TAIL_PADDING
    /\ ret = Err("HeadPaddingMismatch", 0)

\* A buffer with both paddings right.
WellPadded(data) ==
    /\ Len(data) >= HeadLen + TailLen
    /\ HeadOf(data) = ACCOUNT_HEAD_PADDING
    /\ TailOf(data) = ACCOUNT_TAIL_PADDING

\* C10: with the head right, a wrong tail is TailPaddingMismatch; else the
\* call succeeds iff the interior length is a multiple of 8, fails with
\* TransmuteGuard if not, and on success returns every interior byte as
\* little-endian words.
C10_Words ==
    (/\ Done("remove_dex_account_padding")
     /\ Len(args.data) >= HeadLen + TailLen
     /\ HeadOf(args.data) = ACCOUNT_HEAD_PADDING) =>
        IF TailOf(args.data) # ACCOUNT_TAIL_PADDING
        THEN ret = Err("TailPaddingMismatch", 0)
        ELSE LET inner == InnerOf(args.data)
             IN  /\ (ret.kind = "Ok") = (Len(inner) % 8 = 0)
                 /\ (Len(inner) % 8 # 0) =>
                        (ret.kind = "Err" /\ ret.err = "TransmuteGuard")
                 /\ (ret.kind = "Ok") =>
                        /\ Len(ret.val.words) * 8 = Len(inner)
                        /\ \A i \in 1..Len(ret.val.words) :
                               to_le_bytes(ret.val.words[i]) = SubSeq(inner, 8 * i - 7, 8 * i)

\* The flags word of a well-padded buffer with at least 8 interior bytes.
FlagsWord(data) == from_le_bytes(SubSeq(data, HeadLen + 1, HeadLen + 8))

\* C4: with both paddings and the flags word valid, deserialize returns V2
\* iff the permissioned bit is set and the interior is as long as a V2
\* record, V1 iff the bit is clear and the interior is as long as a V1
\* record, and an error otherwise.
C4_Dispatch ==
    (/\ Done("deserialize")
     /\ WellPadded(args.data)
     /\ Len(InnerOf(args.data)) >= 8
     /\ ValidFlags(FlagsWord(args.data))) =>
        LET n == Len(InnerOf(args.data))
            bit == Permissioned(FlagsWord(args.data))
        IN  /\ ret.kind \in {"Ok", "Err"}
            /\ (ret.kind = "Ok" /\ ret.val.variant = "V2") = (bit /\ n = MarketStateV2Size)
            /\ (ret.kind = "Ok" /\ ret.val.variant = "V1") = (~bit /\ n = MarketStateSize)

StepOrder == <<"fetch", "deserialize", "check_flags", "assert_eq", "pubkeys">>

\* The own address recorded in a buffer: interior bytes 8..39.
OwnAddress(data) == SubSeq(data, HeadLen + 9, HeadLen + 40)

\* C7: get_market_keys runs fetch, deserialize, the flags check, the own
\* address comparison and the derivation in this order and stops at the
\* first that fails; a MarketPubkeys is returned only if the flags are
\* Initialized | Market (| Permissioned (| CrankAuthorityRequired)), the
\* recorded own address is the requested one and the returned market is
\* the requested one; a differing own address never yields a MarketPubkeys.
C7_GetMarketKeys ==
    Done("get_market_keys") =>
        /\ Len(steps) \in 1..5
        /\ steps = SubSeq(StepOrder, 1, Len(steps))
        /\ (Len(steps) < 5) => ret.kind # "Ok"
        /\ (args.client.kind # "Ok") => (steps = <<"fetch">> /\ ret.kind = "Err")
        /\ (args.client.kind = "Ok"
              /\ deserialize(args.client.val, args.aligned).kind # "Ok") =>
                 (Len(steps) = 2 /\ ret = deserialize(args.client.val, args.aligned))
        /\ (ret.kind = "Ok") =>
              /\ FlagsWord(args.client.val) \in
                     {U64(0, 0, 0, 3), U64(0, 0, 0, 515), U64(0, 0, 0, 1539)}
              /\ OwnAddress(args.client.val) = args.market
              /\ ret.val.market = args.market
        /\ (/\ args.client.kind = "Ok"
            /\ deserialize(args.client.val, args.aligned).kind = "Ok"
            /\ OwnAddress(args.client.val) # args.market) =>
               (ret.kind # "Ok" /\ Len(steps) \in {3, 4})

C7_Witness ==
    /\ Done("get_market_keys")
    /\ ret.kind = "Ok"
    /\ ret.val.market = args.market
    /\ steps = StepOrder

\* C8: no call of Market::deserialize or get_market_keys panics; every
\* fault is an Err of the typed result.
C8_NoPanic ==
    (pc = "done" /\ op \in {"deserialize", "get_market_keys"}) =>
        ret.kind \in {"Ok", "Err"}
====
